---- MODULE Spec2Model ----
(***************************************************************************)
(* A model of pims/display.py: the video export loop (export), the         *)
(* brightness helpers (_normalize, _estimate_bitrate), the spectral colour *)
(* mapping (wavelength_to_rgb) and the channel composition (to_rgb).       *)
(*                                                                         *)
(* Arrays are records [shape, dtype, px]: px holds the elements in C order *)
(* (last axis fastest).  Python's None is the empty tuple <<>> and an      *)
(* optional integer v is the one-element tuple <<v>>.                      *)
(***************************************************************************)
EXTENDS Integers, Sequences, FiniteSets, TLC

(***************************************************************************)
(* Bounds of the model.                                                    *)
(***************************************************************************)
\* The longest frame sequence an export pulls before the iterator is exhausted.
MaxFrames == 2
\* The wavelengths tried are the integers WlLo .. WlHi (nanometres).
WlLo == 370
WlHi == 760

(***************************************************************************)
(* Python values.                                                          *)
(***************************************************************************)
None == <<>>

Some(v) == <<v>>

Val(o) == o[1]

\* Python truthiness of an optional integer: None and 0 are falsy.
Truthy(o) == o # None /\ Val(o) # 0

NoArray == [shape |-> <<>>, dtype |-> "none", px |-> <<>>]

(***************************************************************************)
(* Sequence and array helpers (numpy semantics).                           *)
(***************************************************************************)
RECURSIVE Prod(_)
Prod(s) == IF s = <<>> THEN 1 ELSE Head(s) * Prod(Tail(s))

RECURSIVE SeqMin(_)
SeqMin(s) ==
    IF Len(s) = 1 THEN s[1]
    ELSE LET m == SeqMin(Tail(s)) IN IF s[1] < m THEN s[1] ELSE m

RECURSIVE SeqMax(_)
SeqMax(s) ==
    IF Len(s) = 1 THEN s[1]
    ELSE LET m == SeqMax(Tail(s)) IN IF s[1] > m THEN s[1] ELSE m

\* tuple.count(v)
Count(s, v) == Cardinality({k \in 1..Len(s) : s[k] = v})

\* tuple.index(v), zero based; only used when v occurs.
Index(s, v) == (CHOOSE k \in 1..Len(s) : s[k] = v /\ \A j \in 1..(k-1) : s[j] # v) - 1

Ndim(a) == Len(a.shape)

\* The multi-index (zero based, one entry per axis) of flat position k (zero based).
RECURSIVE Unflatten(_, _)
Unflatten(k, shape) ==
    IF shape = <<>> THEN <<>>
    ELSE LET inner == Prod(Tail(shape))
         IN <<k \div inner>> \o Unflatten(k % inner, Tail(shape))

\* The flat position (zero based) of a multi-index.
RECURSIVE Flatten(_, _)
Flatten(idx, shape) ==
    IF shape = <<>> THEN 0
    ELSE Head(idx) * Prod(Tail(shape)) + Flatten(Tail(idx), Tail(shape))

\* ndarray.transpose(axes): axis i of the result is axis axes[i] (zero based) of a.
Transpose(a, axes) ==
    LET n == Len(axes)
        newshape == [i \in 1..n |-> a.shape[axes[i] + 1]]
        old(m) == [j \in 1..n |-> m[CHOOSE i \in 1..n : axes[i] + 1 = j]]
    IN [shape |-> newshape,
        dtype |-> a.dtype,
        px |-> [k \in 1..Len(a.px) |->
                  a.px[Flatten(old(Unflatten(k - 1, newshape)), a.shape) + 1]]]

\* list(range(n)) with `axis` removed and re-inserted at position `start`.
MovedAxes(n, axis, start) ==
    LET rest == SelectSeq([i \in 1..n |-> i - 1], LAMBDA x : x # axis)
    IN SubSeq(rest, 1, start) \o <<axis>> \o SubSeq(rest, start + 1, n - 1)

\* np.rollaxis(a, axis, start) for 0 <= start <= a.ndim.
Rollaxis(a, axis, start) ==
    LET st == IF axis < start THEN start - 1 ELSE start
    IN IF axis = st THEN a ELSE Transpose(a, MovedAxes(Ndim(a), axis, st))

\* np.repeat(np.expand_dims(a, 2), 3, axis=2) for a.ndim >= 2: a new axis of
\* length 3 after the first two axes, each element copied three times.
RepeatColor(a) ==
    LET inner == Prod(SubSeq(a.shape, 3, Ndim(a)))
    IN [shape |-> SubSeq(a.shape, 1, 2) \o <<3>> \o SubSeq(a.shape, 3, Ndim(a)),
        dtype |-> a.dtype,
        px |-> [k \in 1..(3 * Len(a.px)) |->
                  a.px[((k - 1) \div (3 * inner)) * inner + ((k - 1) % inner) + 1]]]

IsFlat(a) == SeqMax(a.px) = SeqMin(a.px)

(***************************************************************************)
(* Identity of Python objects: `x is y`.  img.dtype is an instance of      *)
(* numpy.dtype; np.uint8 is the scalar type (a class).                     *)
(***************************************************************************)
DtypeObject(name) == <<"numpy.dtype instance", name>>

NpUint8 == <<"numpy scalar type", "uint8">>

Is(x, y) == x = y

(***************************************************************************)
(* Casting a float NaN to uint8 is undefined: the value is whatever the    *)
(* build produces.                                                         *)
(***************************************************************************)
NaNCast == {0, 255}

(***************************************************************************)
(* Inputs of export.                                                       *)
(***************************************************************************)
\* An array whose elements are base, base + step, ... in C order.
MkArray(shape, dtype, base, step) ==
    [shape |-> shape, dtype |-> dtype,
     px |-> [k \in 1..Prod(shape) |-> base + step * (k - 1)]]

Frames ==
    { MkArray(<<1, 2>>, "uint8", 10, 20),
      MkArray(<<1, 2>>, "uint8", 7, 0),
      MkArray(<<1, 2>>, "float64", 0, 100),
      MkArray(<<2, 2>>, "uint8", 0, 85),
      MkArray(<<3, 1, 2>>, "uint8", 0, 51),
      MkArray(<<1, 2, 3>>, "uint8", 5, 0),
      MkArray(<<2, 1, 2>>, "uint8", 0, 1),
      MkArray(<<3, 3, 1>>, "uint8", 0, 1),
      MkArray(<<1, 2, 1, 3>>, "uint8", 0, 1),
      MkArray(<<2>>, "uint8", 0, 1) }

ExportArgs ==
    [rate : {30},
     bitrate : {None, Some(1000)},
     width : {None, Some(3)},
     height : {None, Some(5)},
     autoscale : BOOLEAN]

\* The stream as add_stream leaves it: nothing assigned by export yet.
StreamDefault == [bit_rate |-> None, width |-> None, height |-> None]

VARIABLES
    \* export
    pc, args, bitrate, stream, ndim, frame_no, img, pulled, encoded,
    opened, closes, error, divzero,
    \* wavelength_to_rgb
    wpc, wavelength, gamma, branch, rgb,
    \* to_rgb
    rpc, rin, is_multichannel, channels, rgbs, i, result, rerror, rdivzero

evars == <<pc, args, bitrate, stream, ndim, frame_no, img, pulled, encoded,
           opened, closes, error, divzero>>

wvars == <<wpc, wavelength, gamma, branch, rgb>>

rvars == <<rpc, rin, is_multichannel, channels, rgbs, i, result, rerror, rdivzero>>

vars == <<evars, wvars, rvars>>

(***************************************************************************)
(* _estimate_bitrate                                                       *)
(***************************************************************************)
_estimate_bitrate(shape, frame_rate) == shape[1] * shape[2] * 8 * 3 * frame_rate

(***************************************************************************)
(* export                                                                  *)
(***************************************************************************)
ExportInit ==
    /\ pc = "start"
    /\ args \in ExportArgs
    /\ bitrate = args.bitrate
    /\ stream = StreamDefault
    /\ ndim = None
    /\ frame_no = None
    /\ img = NoArray
    /\ pulled = <<>>
    /\ encoded = <<>>
    /\ opened = FALSE
    /\ closes = 0
    /\ error = "none"
    /\ divzero = 0

\* output = av.open(filename, 'w'); stream = output.add_stream(...)
Open ==
    /\ pc = "start"
    /\ opened' = TRUE
    /\ pc' = "loop"
    /\ UNCHANGED <<args, bitrate, stream, ndim, frame_no, img, pulled, encoded,
                   closes, error, divzero>>
    /\ UNCHANGED <<wvars, rvars>>

\* for frame_no, img in enumerate(sequence): the iterator yields a frame.
PullFrame ==
    /\ pc = "loop"
    /\ Len(pulled) < MaxFrames
    /\ \E f \in Frames :
        /\ img' = f
        /\ pulled' = Append(pulled, f)
    /\ frame_no' = Some(Len(pulled))
    /\ pc' = IF Len(pulled) = 0 THEN "configure" ELSE "shape"
    /\ UNCHANGED <<args, bitrate, stream, ndim, encoded, opened, closes, error, divzero>>
    /\ UNCHANGED <<wvars, rvars>>

\* for ...: the iterator is exhausted.
Exhausted ==
    /\ pc = "loop"
    /\ pc' = "close"
    /\ UNCHANGED <<args, bitrate, stream, ndim, frame_no, img, pulled, encoded,
                   opened, closes, error, divzero>>
    /\ UNCHANGED <<wvars, rvars>>

\* if not frame_no: the stream is set up from the first frame.  Reading
\* img.shape[k] of a frame with too few axes raises IndexError, after the
\* assignments that precede it.
ConfigBitrate(st) ==
    IF args.bitrate = None
    THEN IF Ndim(img) < 2
         THEN [st EXCEPT !.err = "IndexError"]
         ELSE LET b == _estimate_bitrate(img.shape, args.rate)
              IN [st EXCEPT !.bitrate = Some(b), !.stream.bit_rate = Some(b)]
    ELSE st

ConfigSize(st) ==
    IF st.err # "none" THEN st
    ELSE IF args.width = None
    THEN IF Ndim(img) < 1 THEN [st EXCEPT !.err = "IndexError"]
         ELSE IF Ndim(img) < 2
         THEN [st EXCEPT !.stream.height = Some(img.shape[1]), !.err = "IndexError"]
         ELSE [st EXCEPT !.stream.height = Some(img.shape[1]), !.stream.width = Some(img.shape[2])]
    ELSE IF Truthy(args.height)
    THEN [st EXCEPT !.stream.width = args.width, !.stream.height = args.height]
    ELSE IF Ndim(img) < 2
    THEN [st EXCEPT !.stream.width = args.width, !.err = "IndexError"]
    ELSE [st EXCEPT !.stream.width = args.width,
                    !.stream.height =
                        Some((Val(args.width) * img.shape[1]) \div img.shape[2])]

Configure ==
    /\ pc = "configure"
    /\ LET st == ConfigSize(ConfigBitrate([stream |-> stream, bitrate |-> bitrate,
                                            err |-> "none"]))
       IN /\ stream' = st.stream
          /\ bitrate' = st.bitrate
          /\ error' = st.err
          /\ ndim' = IF st.err = "none" THEN Some(Ndim(img)) ELSE ndim
          /\ pc' = IF st.err = "none" THEN "shape" ELSE "raised"
    /\ UNCHANGED <<args, frame_no, img, pulled, encoded, opened, closes, divzero>>
    /\ UNCHANGED <<wvars, rvars>>

\* if ndim == 3: ... elif ndim == 2: ... else: raise ValueError(wrong shape).
\* The result is [err, img].  ndim is that of the first frame; np.rollaxis
\* and np.repeat raise their own axis error on a frame with too few axes.
ShapeNormalized(nd, a) ==
    IF nd = 3
    THEN IF Count(a.shape, 3) # 1 THEN [err |-> "ShapeError", img |-> a]
         ELSE IF Ndim(a) < 3 THEN [err |-> "NumpyAxisError", img |-> a]
         ELSE [err |-> "none", img |-> Rollaxis(a, Index(a.shape, 3), 3)]
    ELSE IF nd = 2
    THEN IF Ndim(a) < 2 THEN [err |-> "NumpyAxisError", img |-> a]
         ELSE [err |-> "none", img |-> RepeatColor(a)]
    ELSE [err |-> "ShapeError", img |-> a]

ShapeNormalize ==
    /\ pc = "shape"
    /\ LET r == ShapeNormalized(Val(ndim), img)
       IN /\ img' = r.img
          /\ error' = r.err
          /\ pc' = IF r.err = "none" THEN "dtype" ELSE "raised"
    /\ UNCHANGED <<args, bitrate, stream, ndim, frame_no, pulled, encoded,
                   opened, closes, divzero>>
    /\ UNCHANGED <<wvars, rvars>>

\* img.dtype is not np.uint8
DtypeIsNotUint8(a) == ~Is(DtypeObject(a.dtype), NpUint8)

\* (255 * ((img - img.min()) / (img.max() - img.min()))).astype('uint8'); v is
\* the outcome of casting NaN, used when the range is 0 (every element is 0/0).
Autoscaled(a, v) ==
    LET mn == SeqMin(a.px)
        mx == SeqMax(a.px)
    IN [shape |-> a.shape,
        dtype |-> "uint8",
        px |-> [k \in 1..Len(a.px) |->
                  IF mx = mn THEN v ELSE (255 * (a.px[k] - mn)) \div (mx - mn)]]

CheckDtype ==
    /\ pc = "dtype"
    /\ IF DtypeIsNotUint8(img) /\ ~args.autoscale
       THEN /\ error' = "TypeMismatch"
            /\ pc' = "raised"
            /\ UNCHANGED <<img, divzero>>
       ELSE /\ error' = error
            /\ pc' = "encode"
            /\ IF args.autoscale
               THEN \E v \in (IF IsFlat(img) THEN NaNCast ELSE {0}) :
                      /\ img' = Autoscaled(img, v)
                      /\ divzero' = IF IsFlat(img) THEN divzero + 1 ELSE divzero
               ELSE UNCHANGED <<img, divzero>>
    /\ UNCHANGED <<args, bitrate, stream, ndim, frame_no, pulled, encoded, opened, closes>>
    /\ UNCHANGED <<wvars, rvars>>

\* What av.VideoFrame.from_ndarray(..., format='bgr24') takes: height x width x 3, uint8.
EncoderAccepts(a) == Ndim(a) = 3 /\ a.shape[3] = 3 /\ a.dtype = "uint8"

\* A muxer that drops what the encoder returns for the first frame.
MuxUnlessFirst(enc, no, buf) ==
    IF no = 0 THEN enc ELSE Append(enc, [no |-> no, buf |-> buf])

\* packet = stream.encode(frame); output.mux(packet)
Mux(enc, no, buf) == Append(enc, [no |-> no, buf |-> buf])

Encode ==
    /\ pc = "encode"
    /\ \/ /\ encoded' = Mux(encoded, Val(frame_no), img)
          /\ pc' = "loop"
          /\ error' = error
       \/ /\ ~EncoderAccepts(img)
          /\ encoded' = encoded
          /\ pc' = "raised"
          /\ error' = "EncoderError"
    /\ UNCHANGED <<args, bitrate, stream, ndim, frame_no, img, pulled, opened,
                   closes, divzero>>
    /\ UNCHANGED <<wvars, rvars>>

\* output.close()
Close ==
    /\ pc = "close"
    /\ closes' = closes + 1
    /\ pc' = "done"
    /\ UNCHANGED <<args, bitrate, stream, ndim, frame_no, img, pulled, encoded,
                   opened, error, divzero>>
    /\ UNCHANGED <<wvars, rvars>>

ExportNext ==
    \/ Open
    \/ PullFrame
    \/ Exhausted
    \/ Configure
    \/ ShapeNormalize
    \/ CheckDtype
    \/ Encode
    \/ Close


ExportIdle ==
    /\ pc = "idle"
    /\ args = [rate |-> 30, bitrate |-> None, width |-> None, height |-> None,
               autoscale |-> TRUE]
    /\ bitrate = None
    /\ stream = StreamDefault
    /\ ndim = None
    /\ frame_no = None
    /\ img = NoArray
    /\ pulled = <<>>
    /\ encoded = <<>>
    /\ opened = FALSE
    /\ closes = 0
    /\ error = "none"
    /\ divzero = 0

(***************************************************************************)
(* wavelength_to_rgb.  A colour component before the cast is a fraction    *)
(* <<num, den>> in [0, 1]; gamma is a fraction too.  x ** gamma is exact   *)
(* for x = 0 and x = 1 under every gamma, and for every x under gamma = 1: *)
(* the calls modelled are those (bases other than 0 and 1 under the        *)
(* default gamma 0.8 are irrational and outside the model).                *)
(***************************************************************************)
GammaDefault == <<4, 5>>

GammaOne == <<1, 1>>

Pow(x, g) ==
    CASE x[1] = 0 -> <<0, 1>>
      [] x[1] = x[2] -> <<1, 1>>
      [] x[1] # 0 /\ x[1] # x[2] /\ g = GammaOne -> x

\* The chain with half-open ranges, each boundary given to the upper band.
WlBranchHalfOpen(w) ==
    IF w >= 380 /\ w < 440 THEN 1
    ELSE IF w >= 440 /\ w < 490 THEN 2
    ELSE IF w >= 490 /\ w < 510 THEN 3
    ELSE IF w >= 510 /\ w < 580 THEN 4
    ELSE IF w >= 580 /\ w < 645 THEN 5
    ELSE IF w >= 645 /\ w <= 750 THEN 6
    ELSE 7

\* The if/elif chain: the number of the first branch whose test holds, 7 for else.
WlBranch(w) ==
    IF w >= 380 /\ w <= 440 THEN 1
    ELSE IF w >= 440 /\ w <= 490 THEN 2
    ELSE IF w >= 490 /\ w <= 510 THEN 3
    ELSE IF w >= 510 /\ w <= 580 THEN 4
    ELSE IF w >= 580 /\ w <= 645 THEN 5
    ELSE IF w >= 645 /\ w <= 750 THEN 6
    ELSE 7

Zero == <<0, 1>>

One == <<1, 1>>

\* R, G, B of branch b as fractions, before the scaling by 255.
\* attenuation = 0.3 + 0.7 * (w - 380) / 60 = (180 + 7 (w - 380)) / 600, and
\* 0.3 + 0.7 * (750 - w) / 105 = (315 + 7 (750 - w)) / 1050.
BranchRGB(b, w, g) ==
    CASE b = 1 -> <<Pow(<<(440 - w) * (180 + 7 * (w - 380)), 36000>>, g), Zero,
                    Pow(<<180 + 7 * (w - 380), 600>>, g)>>
      [] b = 2 -> <<Zero, Pow(<<w - 440, 50>>, g), One>>
      [] b = 3 -> <<Zero, One, Pow(<<510 - w, 20>>, g)>>
      [] b = 4 -> <<Pow(<<w - 510, 70>>, g), One, Zero>>
      [] b = 5 -> <<One, Pow(<<645 - w, 65>>, g), Zero>>
      [] b = 6 -> <<Pow(<<315 + 7 * (750 - w), 1050>>, g), Zero, Zero>>
      [] b = 7 -> <<Zero, Zero, Zero>>

\* np.uint8(x * 255) of a fraction in [0, 1]: the cast truncates.
Uint8Of255(x) == (x[1] * 255) \div x[2]

\* R *= 255 ...; return (np.uint8(R), np.uint8(G), np.uint8(B))
ScaledRGB(f) == [c \in 1..3 |-> Uint8Of255(f[c])]

wavelength_to_rgb(w, g) == ScaledRGB(BranchRGB(WlBranch(w), w, g))

\* Whether every component of w's branch is 0 or 1, so that no fractional power
\* is taken.
GammaFree(w) ==
    \A c \in 1..3 :
        LET x == BranchRGB(WlBranch(w), w, GammaOne)[c]
        IN x[1] = 0 \/ x[1] = x[2]

WlInputs ==
    {<<w, GammaOne>> : w \in WlLo..WlHi}
        \cup {<<w, GammaDefault>> : w \in {v \in WlLo..WlHi : GammaFree(v)}}

WlIdle ==
    /\ wpc = "idle"
    /\ wavelength = 0
    /\ gamma = GammaDefault
    /\ branch = 0
    /\ rgb = <<>>

WlInit ==
    /\ wpc = "call"
    /\ \E in \in WlInputs : wavelength = in[1] /\ gamma = in[2]
    /\ branch = 0
    /\ rgb = <<>>

\* The if/elif chain picks a branch, which computes R, G and B.
WlSelect ==
    /\ wpc = "call"
    /\ branch' = WlBranch(wavelength)
    /\ rgb' = BranchRGB(branch', wavelength, gamma)
    /\ wpc' = "scale"
    /\ UNCHANGED <<wavelength, gamma>>
    /\ UNCHANGED <<evars, rvars>>

WlReturn ==
    /\ wpc = "scale"
    /\ rgb' = ScaledRGB(rgb)
    /\ wpc' = "done"
    /\ UNCHANGED <<wavelength, gamma, branch>>
    /\ UNCHANGED <<evars, rvars>>

WlNext == WlSelect \/ WlReturn

(***************************************************************************)
(* to_rgb                                                                  *)
(***************************************************************************)
\* The range of the uint16 accumulator, np.zeros(shape_rgb, dtype=np.uint16).
Uint16Range == 65536

\* image.shape[0] < 5
ChannelLimit == 5

\* Green, Magenta, Blue, Red
DefaultTints == <<<<0, 255, 0>>, <<255, 0, 255>>, <<0, 0, 255>>, <<255, 0, 0>>>>

Min2(a, b) == IF a < b THEN a ELSE b

\* _normalize(arr), each element as a fraction <<num, den>>.
_normalize(a) ==
    LET mn == SeqMin(a.px)
        d == SeqMax(a.px) - mn
        ptp == IF d = 0 THEN 1 ELSE d
    IN [shape |-> a.shape,
        dtype |-> "float64",
        px |-> [k \in 1..Len(a.px) |-> <<a.px[k] - mn, ptp>>]]

\* _monochannel_to_rgb(image, rgb): normalize, repeat along a new last axis,
\* multiply by the tint, truncate to uint8.
_monochannel_to_rgb(a, tint) ==
    LET n == _normalize(a)
    IN [shape |-> a.shape \o <<3>>,
        dtype |-> "uint8",
        px |-> [k \in 1..(3 * Len(a.px)) |->
                  LET x == n.px[((k - 1) \div 3) + 1]
                  IN (x[1] * tint[((k - 1) % 3) + 1]) \div x[2]]]

\* image[c], c zero based: the c-th slice along the leading axis.
Channel(a, c) ==
    LET sz == Prod(Tail(a.shape))
    IN [shape |-> Tail(a.shape),
        dtype |-> a.dtype,
        px |-> SubSeq(a.px, c * sz + 1, (c + 1) * sz)]

\* result += x, in place on the uint16 accumulator: the sum wraps.
AccumulateWidth(w, acc, x) ==
    [acc EXCEPT !.px = [k \in 1..Len(acc.px) |-> (acc.px[k] + x.px[k]) % w]]

Accumulate(acc, x) == AccumulateWidth(Uint16Range, acc, x)

\* (result / norm * 255).astype('uint8') for norm > 0.
Rescaled(a, norm) ==
    [shape |-> a.shape,
     dtype |-> "uint8",
     px |-> [k \in 1..Len(a.px) |-> (a.px[k] * 255) \div norm]]

Uniform(a, v) ==
    [shape |-> a.shape, dtype |-> "uint8", px |-> [k \in 1..Len(a.px) |-> v]]

RgbImages ==
    { MkArray(<<1, 2>>, "uint8", 10, 20),
      MkArray(<<1, 2>>, "uint8", 7, 0),
      MkArray(<<5, 1, 1>>, "uint8", 0, 10) }
    \cup { MkArray(<<c, 1, 3>>, "uint16", 100, step) : c \in 1..4, step \in {0, 50} }

WlList(ws) == [kind |-> "list", v |-> ws]

RgbWavelengths ==
    { [kind |-> "None", v |-> <<>>],
      [kind |-> "scalar", v |-> <<645>>],
      WlList(<<510>>),
      WlList(<<645, 300>>),
      WlList(<<300, 800>>),
      WlList(<<440, 490, 510, 580>>) }

RgbIdle ==
    /\ rpc = "idle"
    /\ rin = [image |-> NoArray, wavelengths |-> [kind |-> "None", v |-> <<>>],
              normalize |-> TRUE]
    /\ is_multichannel = FALSE
    /\ channels = 0
    /\ rgbs = <<>>
    /\ i = None
    /\ result = NoArray
    /\ rerror = "none"
    /\ rdivzero = 0

RgbInit ==
    /\ rpc = "start"
    /\ rin \in [image : RgbImages, wavelengths : RgbWavelengths, normalize : BOOLEAN]
    /\ is_multichannel = FALSE
    /\ channels = 0
    /\ rgbs = <<>>
    /\ i = None
    /\ result = NoArray
    /\ rerror = "none"
    /\ rdivzero = 0

\* The tints: the default palette, or wavelength_to_rgb of each of the first
\* `n` wavelengths; slicing a scalar raises TypeError, which is caught.
Tints(w, n) ==
    IF w.kind = "None" THEN SubSeq(DefaultTints, 1, Min2(n, Len(DefaultTints)))
    ELSE IF w.kind = "list"
    THEN [k \in 1..Min2(n, Len(w.v)) |-> wavelength_to_rgb(w.v[k], GammaDefault)]
    ELSE <<wavelength_to_rgb(w.v[1], GammaDefault)>>

\* Lines 339-356 and the allocation of the accumulator.
RgbSetup ==
    /\ rpc = "start"
    /\ LET image == rin.image
           multi == Ndim(image) > 2 /\ image.shape[1] < ChannelLimit
           ch == IF multi THEN image.shape[1] ELSE 1
           shape_rgb == (IF multi THEN Tail(image.shape) ELSE image.shape) \o <<3>>
           tints == Tints(rin.wavelengths, ch)
       IN /\ is_multichannel' = multi
          /\ channels' = ch
          /\ rgbs' = tints
          /\ IF ch # Len(tints)
             THEN /\ rerror' = "IndexError"
                  /\ rpc' = "raised"
                  /\ result' = result
             ELSE /\ rerror' = rerror
                  /\ rpc' = IF multi THEN "accumulate" ELSE "mono"
                  /\ result' = IF multi
                               THEN [shape |-> shape_rgb, dtype |-> "uint16",
                                     px |-> [k \in 1..Prod(shape_rgb) |-> 0]]
                               ELSE result
    /\ UNCHANGED <<rin, i, rdivzero>>
    /\ UNCHANGED <<evars, wvars>>

\* for i in range(channels): result += _monochannel_to_rgb(image[i], rgbs[i])
RgbAccumulate ==
    /\ rpc = "accumulate"
    /\ LET n == IF i = None THEN 0 ELSE Val(i) + 1
       IN /\ i' = Some(n)
          /\ result' = Accumulate(result,
                           _monochannel_to_rgb(Channel(rin.image, n), rgbs[n + 1]))
          /\ rpc' = IF n + 1 = channels THEN "rescale" ELSE "accumulate"
    /\ UNCHANGED <<rin, is_multichannel, channels, rgbs, rerror, rdivzero>>
    /\ UNCHANGED <<evars, wvars>>

\* else: result = _monochannel_to_rgb(image, rgbs[i]); i is a local of to_rgb
\* that only the loop of the other branch assigns.
RgbMono ==
    /\ rpc = "mono"
    /\ IF i = None
       THEN /\ rerror' = "NameError"
            /\ rpc' = "raised"
            /\ result' = result
       ELSE /\ rerror' = rerror
            /\ rpc' = "rescale"
            /\ result' = _monochannel_to_rgb(rin.image, rgbs[Val(i) + 1])
    /\ UNCHANGED <<rin, is_multichannel, channels, rgbs, i, rdivzero>>
    /\ UNCHANGED <<evars, wvars>>

\* if is_multichannel and normalize: norm = result.max(); result = (result /
\* norm * 255).astype('uint8'); return result
RgbRescale ==
    /\ rpc = "rescale"
    /\ IF is_multichannel /\ rin.normalize
       THEN LET norm == SeqMax(result.px)
            IN IF norm = 0
               THEN /\ \E v \in NaNCast : result' = Uniform(result, v)
                    /\ rdivzero' = rdivzero + 1
               ELSE /\ result' = Rescaled(result, norm)
                    /\ rdivzero' = rdivzero
       ELSE UNCHANGED <<result, rdivzero>>
    /\ rpc' = "done"
    /\ UNCHANGED <<rin, is_multichannel, channels, rgbs, i, rerror>>
    /\ UNCHANGED <<evars, wvars>>

RgbNext == RgbSetup \/ RgbAccumulate \/ RgbMono \/ RgbRescale

(***************************************************************************)
(* Specifications: one per entry point.                                    *)
(***************************************************************************)
Init == ExportInit /\ WlIdle /\ RgbIdle

Next == ExportNext

Spec == Init /\ [][Next]_vars

InitWavelength == ExportIdle /\ WlInit /\ RgbIdle

SpecWavelength == InitWavelength /\ [][WlNext]_vars

InitToRgb == ExportIdle /\ WlIdle /\ RgbInit

SpecToRgb == InitToRgb /\ [][RgbNext]_vars

(***************************************************************************)
(* Properties of export.                                                   *)
(***************************************************************************)
LastPulled == pulled[Len(pulled)]

\* The export has returned, or has raised one of its two documented errors.
ExportLeft ==
    pc = "done" \/ (pc = "raised" /\ error \in {"ShapeError", "TypeMismatch"})

\* C1: every export that opened the output has closed it exactly once when it
\* returns and when it raises ShapeError or TypeMismatch.
C1_ClosedOnEveryExit == (opened /\ ExportLeft) => closes = 1

\* C2: with autoscale disabled a frame raises TypeMismatch if and only if its
\* element type is not uint8, and a uint8 frame reaches the encoder with the
\* pixel values of its shape-normalized form.
C2_TypeMismatchIffNotUint8 ==
    (/\ ~args.autoscale
     /\ Len(pulled) > 0
     /\ pc = "encode" \/ (pc = "raised" /\ error = "TypeMismatch"))
        => /\ (error = "TypeMismatch") <=> (LastPulled.dtype # "uint8")
           /\ pc = "encode" => img = ShapeNormalized(Val(ndim), LastPulled).img

\* C3: with autoscale enabled a flat frame is normalized without a division by
\* zero and without error, and the buffer for the encoder is uniformly 0.
C3_FlatFrameUniformZero ==
    (args.autoscale /\ Len(pulled) > 0 /\ IsFlat(LastPulled) /\ pc = "encode")
        => /\ divzero = 0
           /\ error = "none"
           /\ \A k \in 1..Len(img.px) : img.px[k] = 0

\* round(n / d) for positive n and d.
Round(n, d) == (2 * n + d) \div (2 * d)

\* The first frame was inspected (ndim is assigned last) and is height x width.
ConfiguredFromGrey == ndim # None /\ Ndim(pulled[1]) = 2

\* C4: after the first frame (h0 x w0) the stream width is the explicit width
\* or w0, and the stream height is the explicit height, or h0 when the width is
\* unset too, or round(width * h0 / w0) when only the width is given.
C4_StreamDimensions ==
    ConfiguredFromGrey =>
        LET h0 == pulled[1].shape[1]
            w0 == pulled[1].shape[2]
        IN /\ stream.width = IF args.width # None THEN args.width ELSE Some(w0)
           /\ stream.height =
                IF args.height # None THEN args.height
                ELSE IF args.width = None THEN Some(h0)
                ELSE Some(Round(Val(args.width) * h0, w0))

\* C5: after the first frame the stream's bitrate is the caller's bitrate when
\* one is given and height * width * 8 * 3 * rate of the first frame otherwise.
C5_StreamBitrate ==
    ConfiguredFromGrey =>
        stream.bit_rate =
            IF args.bitrate # None THEN args.bitrate
            ELSE Some(pulled[1].shape[1] * pulled[1].shape[2] * 8 * 3 * args.rate)

\* A frame of rank 2, or of rank 3 with exactly one axis of length 3.
WellShaped(f) == Ndim(f) = 2 \/ (Ndim(f) = 3 /\ Count(f.shape, 3) = 1)

\* C6: at every position a frame raises ShapeError if and only if it is not of
\* rank 2 or of rank 3 with exactly one axis of length 3, and no such frame is
\* handed to the encoder.
C6_ShapeErrorIffMalformed ==
    /\ \A k \in 1..Len(encoded) : WellShaped(pulled[encoded[k].no + 1])
    /\ pc \in {"dtype", "encode"} => WellShaped(LastPulled)
    /\ (pc = "raised" /\ error = "ShapeError") => ~WellShaped(LastPulled)

\* Element [y, x, c] of frame f read as height x width x colour: c is ignored
\* by a rank-2 frame and indexes the axis of length 3 of a rank-3 frame.
ColourElement(f, y, x, c) ==
    IF Ndim(f) = 2 THEN f.px[Flatten(<<y, x>>, f.shape) + 1]
    ELSE LET a == Index(f.shape, 3)
             idx == IF a = 0 THEN <<c, y, x>> ELSE IF a = 1 THEN <<y, c, x>> ELSE <<y, x, c>>
         IN f.px[Flatten(idx, f.shape) + 1]

\* The height and width of a well-shaped frame.
Plane(f) ==
    IF Ndim(f) = 2 THEN f.shape
    ELSE SelectSeq(f.shape, LAMBDA n : n # 3)

\* buf is frame f as height x width x 3, its brightness rescaled to 0..255.
IsNormalizedFrame(buf, f) ==
    LET mn == SeqMin(f.px)
        mx == SeqMax(f.px)
    IN /\ buf.shape = Plane(f) \o <<3>>
       /\ \A y \in 0..(buf.shape[1] - 1), x \in 0..(buf.shape[2] - 1), c \in 0..2 :
            buf.px[Flatten(<<y, x, c>>, buf.shape) + 1]
                = (255 * (ColourElement(f, y, x, c) - mn)) \div (mx - mn)

\* The k-th submission is input frame k - 1, as uint8, and is that frame
\* normalized when the frame has the rank of the first and is not flat.
SubmittedInOrder ==
    /\ Len(encoded) <= Len(pulled)
    /\ \A k \in 1..Len(encoded) :
        /\ encoded[k].no = k - 1
        /\ encoded[k].buf.dtype = "uint8"
        /\ (Ndim(pulled[k]) = Val(ndim) /\ ~IsFlat(pulled[k]) /\ args.autoscale)
              => IsNormalizedFrame(encoded[k].buf, pulled[k])

\* A returned export has submitted every frame and closed once.
ReturnedComplete ==
    pc = "done" =>
        /\ error = "none"
        /\ Len(encoded) = Len(pulled)
        /\ opened
        /\ closes = 1

\* Submissions come after the stream's dimensions are set from frame 0.
ConfiguredBeforeSubmit ==
    Len(encoded) > 0 => ndim # None /\ stream.width # None /\ stream.height # None

\* C9: a returned export of n frames has submitted exactly n buffers, one per
\* frame in input order, each the normalized form of its frame; a frame is
\* pulled only when every earlier frame is submitted, no frame is submitted
\* before the stream is configured from frame 0 or after the close, and for
\* n = 0 the output is opened and closed with nothing submitted.
C9_SequentialExport ==
    /\ [](SubmittedInOrder /\ ReturnedComplete /\ ConfiguredBeforeSubmit)
    /\ [][pulled' # pulled => Len(encoded) = Len(pulled)]_vars
    /\ [][closes > 0 => encoded' = encoded /\ closes' = closes]_vars

C9_Witness ==
    /\ pc = "done"
    /\ Len(pulled) >= 2
    /\ Len(encoded) = Len(pulled)
    /\ closes = 1
    /\ \E k \in 1..Len(pulled) : Ndim(pulled[k]) = 3 /\ ~IsFlat(pulled[k])

(***************************************************************************)
(* Properties of wavelength_to_rgb.                                        *)
(***************************************************************************)
\* The bands of the specification's table, closed at both ends.
BandLo == <<380, 440, 490, 510, 580, 645>>

BandHi == <<440, 490, 510, 580, 645, 750>>

InBand(b, w) == BandLo[b] <= w /\ w <= BandHi[b]

\* C8: every wavelength is computed by the first band, in table order, whose
\* closed range holds it, so a shared boundary gets the lower band's formula,
\* and a wavelength below 380 or above 750 gives (0, 0, 0).
C8_FirstMatchingBand ==
    wpc = "done" =>
        /\ \A b \in 1..6 :
                (InBand(b, wavelength) /\ \A a \in 1..(b - 1) : ~InBand(a, wavelength))
                    => /\ branch = b
                       /\ rgb = ScaledRGB(BranchRGB(b, wavelength, gamma))
        /\ (wavelength < 380 \/ wavelength > 750) => branch = 7 /\ rgb = <<0, 0, 0>>

C8_Witness ==
    /\ wpc = "done"
    /\ wavelength = 440
    /\ gamma = GammaDefault
    /\ branch = 1
    /\ rgb = <<0, 0, 255>>

(***************************************************************************)
(* Properties of to_rgb.                                                   *)
(***************************************************************************)
ToRgbLeft == rpc \in {"done", "raised"}

SingleChannel(a) == Ndim(a) = 2 \/ a.shape[1] > 4

\* C7: to_rgb of a single-channel image with no wavelengths and normalize=True
\* returns, without error, an image with a trailing axis of length 3 whose red
\* and blue components are 0 and whose maximum is 255 unless the image is flat.
C7_SingleChannelGreen ==
    (/\ ToRgbLeft
     /\ SingleChannel(rin.image)
     /\ rin.wavelengths.kind = "None"
     /\ rin.normalize)
        => /\ rerror = "none"
           /\ result.shape = rin.image.shape \o <<3>>
           /\ \A k \in 1..Len(result.px) : (k % 3) # 2 => result.px[k] = 0
           /\ ~IsFlat(rin.image) => SeqMax(result.px) = 255

Multichannel(a) == Ndim(a) > 2 /\ a.shape[1] \in 1..4

EnoughTints(in) ==
    \/ in.wavelengths.kind = "None"
    \/ in.wavelengths.kind = "list" /\ Len(in.wavelengths.v) >= in.image.shape[1]
    \/ in.wavelengths.kind = "scalar" /\ in.image.shape[1] = 1

\* The sum over the first n channels of component k of the tinted channels.
RECURSIVE TintedSum(_, _)
TintedSum(n, k) ==
    IF n = 0 THEN 0
    ELSE TintedSum(n - 1, k)
            + _monochannel_to_rgb(Channel(rin.image, n - 1), rgbs[n]).px[k]

\* C10: to_rgb of a multichannel image with enough tints and normalize=True
\* accumulates without overflow and returns, with no division by zero and no
\* error, an image whose maximum is 255, also when the sum is all zero.
C10_RescaledTo255 ==
    (Multichannel(rin.image) /\ EnoughTints(rin) /\ rin.normalize)
        => /\ rpc = "rescale" =>
                \A k \in 1..Len(result.px) : result.px[k] = TintedSum(channels, k)
           /\ ToRgbLeft =>
                /\ rerror = "none"
                /\ rdivzero = 0
                /\ SeqMax(result.px) = 255

====
